---- MODULE Spec2Model ----
(***************************************************************************)
(* Model of the event discovery pipeline of the fireworks_tonight          *)
(* integration: FireworksAPI (api.py) driven by the config entry life      *)
(* cycle of __init__.py.                                                   *)
(*                                                                         *)
(* Numbers.  Distances are integers in metres (km * 1000); round(d, 2)     *)
(* is rounding to a multiple of 10 m.  Coordinates are integers in units   *)
(* of 1e-5 degree.  math.sin/cos/asin are not expressible, so              *)
(* calculate_distance is tabulated at the model's points with the values   *)
(* the source function returns there.                                      *)
(*                                                                         *)
(* Python values.  dict.get(k) is a set with at most one element ({} is    *)
(* None); dict.get(k, default) is a plain value; a str that the code       *)
(* splits is a sequence of one-character strings.                          *)
(***************************************************************************)
EXTENDS Integers, Sequences, FiniteSets, TLC

\* Longest upstream events list the model enumerates.
MaxEvents == 2

\* async_close is called only while the instance has created fewer sessions
\* than this.
MaxSessions == 2

\* DEFAULT_MAX_DISTANCE = 10 km (const.py:8), in metres of the model.
DEFAULT_MAX_DISTANCE == 10000

\* max_distance: vol.Coerce(float) accepts every float; the default, and
\* 9.997 km, which is not a multiple of 0.01 km.
Radii == {DEFAULT_MAX_DISTANCE, 9997}

\* hass.config.latitude / longitude: (-33.8, 151.2).
Origin == [latitude |-> -3380000, longitude |-> 15120000]

\* Event places, with the haversine distance from Origin as computed by
\* calculate_distance: 5.635963 km, 9.995817 km, 10.002577 km, 10.012417 km.
PScenario    == [latitude |-> -3385000, longitude |-> 15121000]
PJustInside  == [latitude |-> -3388986, longitude |-> 15120300]
PJustOutside == [latitude |-> -3388994, longitude |-> 15119800]
PBeyond      == [latitude |-> -3389004, longitude |-> 15120100]

---------------------------------------------------------------------------
\* Python helpers

None == {}

EmptyDict == [k \in {} |-> 0]

\* JSON null where an object was expected.
Null == [json_null |-> TRUE]

IsNull(v) == DOMAIN v = {"json_null"}

\* d.get(k, default)
Get(d, k, default) == IF k \in DOMAIN d THEN d[k] ELSE default

\* d.get(k)
GetOpt(d, k) == IF k \in DOMAIN d THEN {d[k]} ELSE None

\* s.split(sep) on a sequence of characters.
RECURSIVE SplitFrom(_, _, _, _)
SplitFrom(s, sep, i, cur) ==
    IF i > Len(s) THEN <<cur>>
    ELSE IF s[i] = sep THEN <<cur>> \o SplitFrom(s, sep, i + 1, <<>>)
    ELSE SplitFrom(s, sep, i + 1, Append(cur, s[i]))

Split(s, sep) == SplitFrom(s, sep, 1, <<>>)

\* s.strip()
RECURSIVE LStrip(_)
LStrip(s) == IF s # <<>> /\ Head(s) = " " THEN LStrip(Tail(s)) ELSE s

RECURSIVE RStrip(_)
RStrip(s) ==
    IF s # <<>> /\ s[Len(s)] = " " THEN RStrip(SubSeq(s, 1, Len(s) - 1)) ELSE s

Strip(s) == RStrip(LStrip(s))

\* s.lower()
LowerChar(c) ==
    CASE c = "K" -> "k"
      [] c = "E" -> "e"
      [] c = "W" -> "w"
      [] OTHER -> c

Lower(s) == [i \in 1..Len(s) |-> LowerChar(s[i])]

\* round(x, 2) on metres: to the nearest multiple of 10, ties to even.
Round2(d) ==
    LET q == d \div 10
        r == d % 10
    IN  IF r < 5 THEN q * 10
        ELSE IF r > 5 THEN (q + 1) * 10
        ELSE IF q % 2 = 0 THEN q * 10 ELSE (q + 1) * 10

---------------------------------------------------------------------------
\* FireworksAPI.calculate_distance

DistanceFromOrigin(lat, lon) ==
    CASE lat = Origin.latitude /\ lon = Origin.longitude -> 0
      [] lat = PScenario.latitude /\ lon = PScenario.longitude -> 5636
      [] lat = PJustInside.latitude /\ lon = PJustInside.longitude -> 9996
      [] lat = PJustOutside.latitude /\ lon = PJustOutside.longitude -> 10003
      [] lat = PBeyond.latitude /\ lon = PBeyond.longitude -> 10012

\* c * r with r = 6371, in metres.  The haversine is symmetric and zero on
\* equal points; one of the two points is always Origin (api.py:131).
calculate_distance(lat1, lon1, lat2, lon2) ==
    CASE lat1 = lat2 /\ lon1 = lon2 -> 0
      [] lat1 = Origin.latitude /\ lon1 = Origin.longitude ->
            DistanceFromOrigin(lat2, lon2)
      [] lat2 = Origin.latitude /\ lon2 = Origin.longitude ->
            DistanceFromOrigin(lat1, lon1)

---------------------------------------------------------------------------
\* Upstream service (https://fireworks-tonight.au/api/v1/)

\* self.postcode
Postcode == <<"3", "1", "0", "1">>

\* Every way a request can end other than a 2xx response with a JSON body.
Failures == {"http_500", "timeout", "transport"}

Failed(kind) == [status |-> kind, json |-> "none", items |-> <<>>]

JsonArray(items) == [status |-> "ok", json |-> "array", items |-> items]

JsonNull == [status |-> "ok", json |-> "null", items |-> <<>>]

\* GET locations?startswith=: combined "locality, postcode" strings.
LocationStrings ==
    { <<"K", "e", "w", ",", " ", "3", "1", "0", "1">>,
      <<"K", "e", "w", " ", "3", "1", "0", "1">>,
      <<>> }

LocationsOutcomes ==
    {Failed(k) : k \in Failures} \cup {JsonNull, JsonArray(<<>>)}
        \cup {JsonArray(<<s>>) : s \in LocationStrings}

\* GET locations?locality=&postcode=: the upstream's location table.
Kew(id) == [id |-> id, locality |-> <<"k", "e", "w">>,
            postcode |-> <<"3", "1", "0", "1">>]

LocationTables ==
    { <<>>, <<Kew(7)>>, <<Kew(0)>>, <<Kew(7), Kew(9)>>,
      <<[locality |-> <<"k", "e", "w">>, postcode |-> <<"3", "1", "0", "1">>]>> }

LocationIdOutcomes ==
    {Failed(k) : k \in Failures} \cup {JsonArray(t) : t \in LocationTables}

\* What the exact-match endpoint answers to a query.
ExactMatches(table, query) ==
    SelectSeq(table, LAMBDA l :
        l.locality = query.locality /\ l.postcode = query.postcode)

\* GET events?location=&days=: raw event records.  day is the upstream's
\* own day offset of the event (0 is today), not a field of the record.
FullEvent(id, place, date) ==
    [name |-> "Fireworks", rawlocation |-> "Oval",
     location |-> [locality |-> "Kew", coordinates |-> place],
     date |-> date, start_time |-> "20:15", end_time |-> "20:45",
     description |-> "Display", source |-> "council", id |-> id]

RawEvents ==
    { [day |-> 0, event |-> FullEvent(1, PScenario, "2025-11-25")],
      [day |-> 0, event |-> [location |-> [coordinates |-> PJustInside]]],
      [day |-> 3, event |-> FullEvent(3, PJustOutside, "2025-11-28")],
      [day |-> 0, event |-> FullEvent(4, PBeyond, "2025-11-25")],
      [day |-> 0, event |-> [name |-> "No location"]],
      [day |-> 2, event |-> [name |-> "No coordinates",
                             location |-> [locality |-> "Kew"]]],
      [day |-> 0, event |-> [name |-> "No latitude",
                             location |-> [coordinates |->
                                [longitude |-> Origin.longitude]]]],
      [day |-> 0, event |-> [name |-> "No longitude",
                             location |-> [coordinates |->
                                [latitude |-> Origin.latitude]]]],
      [day |-> 0, event |-> [name |-> "Null location", location |-> Null]] }

SeqsUpTo(S, n) == UNION {[1..k -> S] : k \in 0..n}

EventsOutcomes ==
    {Failed(k) : k \in Failures} \cup {JsonNull}
        \cup {JsonArray(l) : l \in SeqsUpTo(RawEvents, MaxEvents)}

\* The location the upstream's events are filed under.
EventsLocation == Kew(7)

\* What the events endpoint answers to a query.
EventsWithin(items, query) ==
    LET hit == SelectSeq(items, LAMBDA e :
                   query.location = EventsLocation.id /\ e.day < query.days)
    IN  [i \in 1..Len(hit) |-> hit[i].event]

---------------------------------------------------------------------------
\* State

\* The two callers of one FireworksAPI instance: the DataUpdateCoordinator
\* of __init__.py and one further consumer of the public interface.
Tasks == {"coordinator", "consumer"}

VARIABLES
    max_distance,   \* self.max_distance
    session,        \* self._session: None or the index of a session
    sessions,       \* every aiohttp.ClientSession created: "open" / "closed"
    tasks,          \* per task: where its _get_events_for_days call stands
    upstream,       \* what each endpoint answers, once it has been asked
    returned,       \* per days: the EventSet last returned to a caller
    entry,          \* the config entry: "setup", "loaded", "unloaded"
    closing         \* async_close calls suspended in await self._session.close()

vars == <<max_distance, session, sessions, tasks, upstream, returned, entry,
          closing>>

Idle == [pc |-> "idle", days |-> 0, requests |-> <<>>, result |-> None]

Init ==
    /\ max_distance \in Radii
    /\ session = None
    /\ sessions = <<>>
    /\ tasks = [t \in Tasks |-> Idle]
    /\ upstream = [locations |-> None, location_id |-> None, events |-> None]
    /\ returned = [d \in {1, 7} |-> None]
    /\ entry = "setup"
    /\ closing = 0

---------------------------------------------------------------------------
\* FireworksAPI

\* _get_session: [session, sessions] after the call.
GetSession(sess, pool) ==
    IF sess = None
    THEN [session |-> {Len(pool) + 1}, sessions |-> Append(pool, "open")]
    ELSE [session |-> sess, sessions |-> pool]

\* return {"event_count": 0, "events": []}
EmptyEventSet == [event_count |-> 0, events |-> <<>>]

\* The value of an optional that is not None.
The(opt) == CHOOSE x \in opt : TRUE

\* Python truth of an optional str: None and "" are false.
TruthyStr(opt) == opt # None /\ opt # {<<>>}

\* Python truth of an optional int: None and 0 are false.
TruthyInt(opt) == opt # None /\ opt # {0}

\* _get_locations after the response: data[0] if data else None, and None
\* on any exception.
LocationsResult(o) ==
    IF o.status = "ok" /\ o.json = "array" /\ o.items # <<>>
    THEN {o.items[1]} ELSE None

\* The exact-match request of _get_location_id, from the step-1 string.
ExactQuery(parts) ==
    [call |-> "_get_location_id",
     locality |-> Lower(Strip(parts[1])), postcode |-> Strip(parts[2])]

\* _get_location_id after the response: data[0]['id'] if data else None,
\* and None on any exception (KeyError of a record without 'id').
LocationIdResult(o, query) ==
    LET data == ExactMatches(o.items, query)
    IN  IF o.status = "ok" /\ o.json = "array" /\ data # <<>>
        THEN GetOpt(data[1], "id") ELSE None

\* _get_events after the response: data, and [] on any exception.
EventsResult(o, query) ==
    IF o.status # "ok" THEN [json |-> "array", items |-> <<>>]
    ELSE [json |-> o.json, items |-> EventsWithin(o.items, query)]

\* Mutant: a missing coordinate defaults to the home coordinate.
CoordinateOrHome(coordinates, key) == {Get(coordinates, key, Origin[key])}

\* coordinates.get('latitude'), coordinates.get('longitude')
Coordinate(coordinates, key) == GetOpt(coordinates, key)

\* if event_lat is None or event_lon is None: continue
MissingCoordinates(event_lat, event_lon) == event_lat = None \/ event_lon = None

\* if distance <= self.max_distance
WithinRange(distance, radius) == distance <= radius

\* Mutant: the title falls back to the empty string.
NearbyEventEmptyTitle(event, location, event_lat, event_lon, distance) ==
    [title |-> Get(event, "name", ""),
     location |-> Get(event, "rawlocation", "Unknown Location"),
     locality |-> Get(location, "locality", "Unknown"),
     coordinates |-> [latitude |-> event_lat, longitude |-> event_lon],
     distance_km |-> Round2(distance),
     date |-> GetOpt(event, "date"),
     start_time |-> GetOpt(event, "start_time"),
     end_time |-> GetOpt(event, "end_time"),
     description |-> Get(event, "description", ""),
     source |-> Get(event, "source", ""),
     event_id |-> GetOpt(event, "id")]

\* The nearby_event dict of one retained event.
NearbyEvent(event, location, event_lat, event_lon, distance) ==
    [title |-> Get(event, "name", "Unknown Event"),
     location |-> Get(event, "rawlocation", "Unknown Location"),
     locality |-> Get(location, "locality", "Unknown"),
     coordinates |-> [latitude |-> event_lat, longitude |-> event_lon],
     distance_km |-> Round2(distance),
     date |-> GetOpt(event, "date"),
     start_time |-> GetOpt(event, "start_time"),
     end_time |-> GetOpt(event, "end_time"),
     description |-> Get(event, "description", ""),
     source |-> Get(event, "source", ""),
     event_id |-> GetOpt(event, "id")]

\* The for loop over events from index i on, nearby_events being acc:
\* [raised, events].  location.get on a JSON null raises AttributeError,
\* math.radians(None) in calculate_distance raises TypeError.
RECURSIVE NearbyLoop(_, _, _, _)
NearbyLoop(events, i, acc, radius) ==
    IF i > Len(events) THEN [raised |-> FALSE, events |-> acc]
    ELSE
        LET event == events[i]
            location == Get(event, "location", EmptyDict)
        IN  IF IsNull(location) THEN [raised |-> TRUE, events |-> acc]
            ELSE
                LET coordinates == Get(location, "coordinates", EmptyDict)
                    event_lat == Coordinate(coordinates, "latitude")
                    event_lon == Coordinate(coordinates, "longitude")
                IN  IF MissingCoordinates(event_lat, event_lon)
                    THEN NearbyLoop(events, i + 1, acc, radius)
                    ELSE IF event_lat = None \/ event_lon = None
                    THEN [raised |-> TRUE, events |-> acc]
                    ELSE
                        LET distance == calculate_distance(
                                Origin.latitude, Origin.longitude,
                                The(event_lat), The(event_lon))
                        IN  IF WithinRange(distance, radius)
                            THEN NearbyLoop(events, i + 1,
                                    Append(acc, NearbyEvent(event, location,
                                        The(event_lat), The(event_lon), distance)),
                                    radius)
                            ELSE NearbyLoop(events, i + 1, acc, radius)

\* Mutant: the count is taken over the distinct events.
BuildEventSetDistinct(nearby_events) ==
    [event_count |-> Cardinality({nearby_events[i] : i \in DOMAIN nearby_events}),
     events |-> nearby_events]

\* return {"event_count": len(nearby_events), "events": nearby_events}
BuildEventSet(nearby_events) ==
    [event_count |-> Len(nearby_events), events |-> nearby_events]

\* The task returns its EventSet.
Finish(task, eventset) == [task EXCEPT !.pc = "done", !.result = {eventset}]

\* An exception leaves the body of _get_events_for_days' try.
Raise(task) == [task EXCEPT !.pc = "raised"]

\* Mutant: no except clause at the boundary.
ExceptExceptionAbsent(task) == task

\* except Exception as err: return {"event_count": 0, "events": []}
ExceptException(task) ==
    IF task.pc = "raised" THEN Finish(task, EmptyEventSet) ELSE task

\* The task issues session.get(url) on session sess and suspends.
Request(task, pc, query, sess) ==
    [task EXCEPT !.pc = pc,
                 !.requests = Append(@, [query |-> query, session |-> The(sess),
                                         answer |-> "pending"])]

\* The pending request ends: with the response's status, or in an exception.
Answer(task, o) ==
    [task EXCEPT !.requests[Len(task.requests)].answer = o.status]

\* session.get on a closed session raises RuntimeError before any request
\* is made.
IsClosed(sess, pool) == pool[The(sess)] = "closed"

\* The request the task is waiting on.
Pending(task) == task.requests[Len(task.requests)]

\* The events loop and the return of _get_events_for_days, events being the
\* value of _get_events; iterating a JSON null raises TypeError.
ReturnNearby(task, events, radius) ==
    IF events.json # "array" THEN Raise(task)
    ELSE
        LET loop == NearbyLoop(events.items, 1, <<>>, radius)
        IN  IF loop.raised THEN Raise(task)
            ELSE Finish(task, BuildEventSet(loop.events))

\* Mutant: every invocation replaces the instance's session by a new one
\* and closes the old one.
BeginFetchNewSession(task, days, sess, pool) ==
    LET closed == IF sess = None THEN pool
                  ELSE [pool EXCEPT ![The(sess)] = "closed"]
        s == GetSession(None, closed)
        fresh == [task EXCEPT !.days = days, !.result = None, !.requests = <<>>]
    IN  [task |-> Request(fresh, "await_locations",
                          [call |-> "_get_locations", startswith |-> Postcode],
                          s.session),
         session |-> s.session, sessions |-> s.sessions]

\* _get_events_for_days up to the first request: _get_location_id,
\* _get_locations, _get_session, session.get.
BeginFetch(task, days, sess, pool) ==
    LET s == GetSession(sess, pool)
        fresh == [task EXCEPT !.days = days, !.result = None, !.requests = <<>>]
    IN  [task |-> IF IsClosed(s.session, s.sessions)
                  THEN Finish(fresh, EmptyEventSet)
                  ELSE Request(fresh, "await_locations",
                               [call |-> "_get_locations",
                                startswith |-> Postcode], s.session),
         session |-> s.session, sessions |-> s.sessions]

\* From the prefix search's response to the exact-match request, or to the
\* return.  parts[1] of a string without a comma raises IndexError after
\* _get_session has run.
AfterLocations(task, o, sess, pool) ==
    LET location == LocationsResult(o)
    IN  IF ~TruthyStr(location)
        THEN [task |-> Finish(Answer(task, o), EmptyEventSet),
              session |-> sess, sessions |-> pool]
        ELSE
            LET parts == Split(The(location), ",")
                s == GetSession(sess, pool)
            IN  [task |-> IF Len(parts) < 2
                          THEN ExceptException(Raise(Answer(task, o)))
                          ELSE IF IsClosed(s.session, s.sessions)
                          THEN Finish(Answer(task, o), EmptyEventSet)
                          ELSE Request(Answer(task, o), "await_location_id",
                                       ExactQuery(parts), s.session),
                 session |-> s.session, sessions |-> s.sessions]

\* Mutant: no "if not location_id" guard; the events request is always made.
AfterLocationIdUnguarded(task, o, sess, pool) ==
    LET location_id == LocationIdResult(o, Pending(task).query)
        s == GetSession(sess, pool)
    IN  [task |-> Request(Answer(task, o), "await_events",
                      [call |-> "_get_events",
                       location |-> IF location_id = None THEN 0
                                    ELSE The(location_id),
                       days |-> task.days], s.session),
         session |-> s.session, sessions |-> s.sessions]

\* From the exact match's response to the events request, or to the return.
\* On a closed session _get_events returns [].
AfterLocationId(task, o, sess, pool) ==
    LET location_id == LocationIdResult(o, Pending(task).query)
    IN  IF ~TruthyInt(location_id)
        THEN [task |-> Finish(Answer(task, o), EmptyEventSet),
              session |-> sess, sessions |-> pool]
        ELSE
            LET s == GetSession(sess, pool)
            IN  [task |-> IF IsClosed(s.session, s.sessions)
                          THEN ExceptException(ReturnNearby(Answer(task, o),
                                   [json |-> "array", items |-> <<>>],
                                   max_distance))
                          ELSE Request(Answer(task, o), "await_events",
                                   [call |-> "_get_events",
                                    location |-> The(location_id),
                                    days |-> task.days], s.session),
                 session |-> s.session, sessions |-> s.sessions]

\* Mutant: the session is closed when the events have been read, and stays
\* referenced.
AfterEventsClosing(task, o, sess, pool) ==
    [task |-> ExceptException(ReturnNearby(Answer(task, o),
                  EventsResult(o, Pending(task).query), max_distance)),
     session |-> sess,
     sessions |-> IF sess = None THEN pool
                  ELSE [pool EXCEPT ![The(sess)] = "closed"]]

\* Mutant: a failed events request is issued once more.
AfterEventsRetry(task, o, sess, pool) ==
    IF o.status \in Failures /\ Len(task.requests) < 4
    THEN [task |-> Request(Answer(task, o), "await_events",
                           Pending(task).query, sess),
          session |-> sess, sessions |-> pool]
    ELSE [task |-> ExceptException(ReturnNearby(Answer(task, o),
                       EventsResult(o, Pending(task).query), max_distance)),
          session |-> sess, sessions |-> pool]

\* From the events response to the return.
AfterEvents(task, o, sess, pool) ==
    [task |-> ExceptException(ReturnNearby(Answer(task, o),
                  EventsResult(o, Pending(task).query), max_distance)),
     session |-> sess, sessions |-> pool]

\* async_close when await self._session.close() does not suspend; no code of
\* the repository calls it.
async_close ==
    /\ session # None
    /\ sessions' = [sessions EXCEPT ![The(session)] = "closed"]
    /\ session' = None
    /\ UNCHANGED <<max_distance, tasks, upstream, returned, entry, closing>>

\* async_close up to await self._session.close(), when closing the
\* session's connections suspends the caller: the session is closed and
\* still referenced.
async_close_suspend ==
    /\ session # None
    /\ sessions[The(session)] = "open"
    /\ sessions' = [sessions EXCEPT ![The(session)] = "closed"]
    /\ closing' = closing + 1
    /\ UNCHANGED <<max_distance, session, tasks, upstream, returned, entry>>

\* async_close after the await: self._session = None.
async_close_resume ==
    /\ closing > 0
    /\ session' = None
    /\ closing' = closing - 1
    /\ UNCHANGED <<max_distance, sessions, tasks, upstream, returned, entry>>

---------------------------------------------------------------------------
\* Steps

\* What an endpoint answers: anything the first time, the same afterwards.
\* A request whose session was closed meanwhile ends in a transport error
\* and tells nothing about the upstream.
Answers(task, endpoint, outcomes) ==
    IF sessions[Pending(task).session] = "closed" THEN {Failed("transport")}
    ELSE IF upstream[endpoint] = None THEN outcomes ELSE upstream[endpoint]

Observed(task, endpoint, o) ==
    IF sessions[Pending(task).session] = "closed" THEN upstream
    ELSE [upstream EXCEPT ![endpoint] = {o}]

\* A caller invokes async_get_events (days = 1) or async_get_all_events
\* (days = 7).  async_setup_entry runs the coordinator's first refresh alone;
\* the coordinator always fetches 7 days.
Invoke(t, days) ==
    /\ tasks[t].pc = "idle"
    /\ entry # "unloaded"
    /\ entry = "setup" => t = "coordinator"
    /\ t = "coordinator" => days = 7
    /\ LET n == BeginFetch(tasks[t], days, session, sessions)
       IN  /\ tasks' = [tasks EXCEPT ![t] = n.task]
           /\ session' = n.session
           /\ sessions' = n.sessions
    /\ UNCHANGED <<max_distance, upstream, returned, entry, closing>>

LocationsResponse(t) ==
    /\ tasks[t].pc = "await_locations"
    /\ \E o \in Answers(tasks[t], "locations", LocationsOutcomes) :
          /\ upstream' = Observed(tasks[t], "locations", o)
          /\ LET n == AfterLocations(tasks[t], o, session, sessions)
             IN  /\ tasks' = [tasks EXCEPT ![t] = n.task]
                 /\ session' = n.session
                 /\ sessions' = n.sessions
    /\ UNCHANGED <<max_distance, returned, entry, closing>>

LocationIdResponse(t) ==
    /\ tasks[t].pc = "await_location_id"
    /\ \E o \in Answers(tasks[t], "location_id", LocationIdOutcomes) :
          /\ upstream' = Observed(tasks[t], "location_id", o)
          /\ LET n == AfterLocationId(tasks[t], o, session, sessions)
             IN  /\ tasks' = [tasks EXCEPT ![t] = n.task]
                 /\ session' = n.session
                 /\ sessions' = n.sessions
    /\ UNCHANGED <<max_distance, returned, entry, closing>>

EventsResponse(t) ==
    /\ tasks[t].pc = "await_events"
    /\ \E o \in Answers(tasks[t], "events", EventsOutcomes) :
          /\ upstream' = Observed(tasks[t], "events", o)
          /\ LET n == AfterEvents(tasks[t], o, session, sessions)
             IN  /\ tasks' = [tasks EXCEPT ![t] = n.task]
                 /\ session' = n.session
                 /\ sessions' = n.sessions
    /\ UNCHANGED <<max_distance, returned, entry, closing>>

\* The caller receives the EventSet; async_setup_entry goes on after the
\* first refresh and the entry is loaded.
Return(t) ==
    /\ tasks[t].pc = "done"
    /\ returned' = [returned EXCEPT ![tasks[t].days] = tasks[t].result]
    /\ tasks' = [tasks EXCEPT ![t].pc = "idle"]
    /\ entry' = IF entry = "setup" THEN "loaded" ELSE entry
    /\ UNCHANGED <<max_distance, session, sessions, upstream, closing>>

\* async_unload_entry with unload_ok: the coordinator is popped from
\* hass.data; nothing else is touched.
async_unload_entry ==
    /\ entry = "loaded"
    /\ entry' = "unloaded"
    /\ UNCHANGED <<max_distance, session, sessions, tasks, upstream, returned, closing>>

Next ==
    \/ \E t \in Tasks, days \in {1, 7} : Invoke(t, days)
    \/ \E t \in Tasks : LocationsResponse(t)
    \/ \E t \in Tasks : LocationIdResponse(t)
    \/ \E t \in Tasks : EventsResponse(t)
    \/ \E t \in Tasks : Return(t)
    \/ async_unload_entry

Spec == Init /\ [][Next]_vars

\* The instance with callers of async_close as well.  What the session is
\* owes nothing to the events the upstream lists, so the events endpoint has
\* one of three answers from the start.
InitClose ==
    /\ max_distance \in Radii
    /\ session = None
    /\ sessions = <<>>
    /\ tasks = [t \in Tasks |-> Idle]
    /\ \E o \in {Failed("http_500"), JsonArray(<<>>),
                JsonArray(<<[day |-> 0,
                             event |-> FullEvent(1, PScenario, "2025-11-25")]>>)} :
           upstream = [locations |-> None, location_id |-> None, events |-> {o}]
    /\ returned = [d \in {1, 7} |-> None]
    /\ entry = "setup"
    /\ closing = 0

NextClose ==
    \/ Next
    \/ (Len(sessions) < MaxSessions /\ async_close)
    \/ (Len(sessions) < MaxSessions /\ async_close_suspend)
    \/ async_close_resume

SpecClose == InitClose /\ [][NextClose]_vars

---------------------------------------------------------------------------
\* Vocabulary of the properties

\* The calls a task has made in its current invocation, in order.
Calls(task) == [i \in 1..Len(task.requests) |-> task.requests[i].query.call]

Asked(task, call) == \E i \in 1..Len(task.requests) : Calls(task)[i] = call

EndpointOf(call) ==
    CASE call = "_get_locations" -> "locations"
      [] call = "_get_location_id" -> "location_id"
      [] call = "_get_events" -> "events"

\* A response that is a 2xx with a JSON array.
IsArray(o) == o.status = "ok" /\ o.json = "array"

\* One of the task's calls ended in a failure or a malformed payload.
AnyFailed(task) ==
    \E i \in 1..Len(task.requests) :
        \/ task.requests[i].answer \in Failures
        \/ \E o \in upstream[EndpointOf(Calls(task)[i])] : ~IsArray(o)

Done(t) == tasks[t].pc = "done"

ResultOf(t) == The(tasks[t].result)

WellFormed(result) ==
    /\ Cardinality(result) = 1
    /\ DOMAIN The(result) = {"event_count", "events"}
    /\ The(result).event_count \in Nat
    /\ The(result).event_count = Len(The(result).events)

---------------------------------------------------------------------------
\* C1: no invocation ever ends in an exception; every invocation returns a
\* well-formed EventSet; and when one of its upstream calls failed (non-2xx,
\* timeout, transport error, malformed payload) or the postcode was not
\* resolved (no events request was made), it returns exactly
\* {event_count: 0, events: []}.
C1_NeverRaisesFailureGivesEmpty ==
    \A t \in Tasks :
        /\ tasks[t].pc # "raised"
        /\ Done(t) =>
              /\ WellFormed(tasks[t].result)
              /\ (AnyFailed(tasks[t]) \/ ~Asked(tasks[t], "_get_events"))
                    => tasks[t].result = {EmptyEventSet}

\* An invocation whose events request ended in HTTP 500 has returned the
\* empty EventSet.
C1_Witness ==
    \E t \in Tasks :
        /\ Done(t)
        /\ Asked(tasks[t], "_get_events")
        /\ upstream.events = {Failed("http_500")}
        /\ tasks[t].result = {EmptyEventSet}

\* C2: every EventSet the pipeline returns, on every path, has
\* event_count equal to the length of events.
C2_EventCountIsLength ==
    /\ \A t \in Tasks :
          Done(t) => ResultOf(t).event_count = Len(ResultOf(t).events)
    /\ \A d \in DOMAIN returned :
          \A r \in returned[d] : r.event_count = Len(r.events)

\* A normal completion that returned two events.
C2_Witness ==
    \E t \in Tasks :
        Done(t) /\ Len(ResultOf(t).events) = 2 /\ ResultOf(t).event_count = 2

\* The raw events the upstream gave the task for its events request.
Fetched(task) ==
    EventsWithin(The(upstream.events).items,
                 task.requests[Len(task.requests)].query)

\* The task's events request was answered with a JSON array.
FetchedArray(task) ==
    /\ Asked(task, "_get_events")
    /\ \E o \in upstream.events : IsArray(o)

\* The raw record has both coordinates.
HasBoth(r) ==
    /\ "location" \in DOMAIN r
    /\ ~IsNull(r.location)
    /\ "coordinates" \in DOMAIN r.location
    /\ {"latitude", "longitude"} \subseteq DOMAIN r.location.coordinates

\* The raw record's location is a JSON null.
NullLocation(r) == "location" \in DOMAIN r /\ IsNull(r.location)

\* The returned event e was made from the raw record r.
MadeFrom(e, r) ==
    /\ e.title = Get(r, "name", "Unknown Event")
    /\ e.event_id = GetOpt(r, "id")
    /\ HasBoth(r) => e.coordinates = r.location.coordinates

Retained(t, r) ==
    \E i \in 1..Len(ResultOf(t).events) : MadeFrom(ResultOf(t).events[i], r)

DistanceTo(r) ==
    calculate_distance(Origin.latitude, Origin.longitude,
                       r.location.coordinates.latitude,
                       r.location.coordinates.longitude)

\* C3 (as claimed): every returned event's distance_km, the value rounded
\* to 2 decimals, is at most max_distance.  The code compares the unrounded
\* distance and attaches the rounded one; with a max_distance that is not a
\* multiple of 0.01 km the rounded value can exceed it.
C3_DistanceKmWithinRadius ==
    \A t \in Tasks :
        Done(t) =>
            \A i \in 1..Len(ResultOf(t).events) :
                ResultOf(t).events[i].distance_km <= max_distance

\* C4: every returned event carries both coordinates, and no upstream record
\* that lacks latitude or longitude (absent key, absent coordinates object,
\* absent location object) is among the returned events, for any radius.
C4_NoEventWithoutCoordinates ==
    \A t \in Tasks :
        Done(t) =>
            /\ \A i \in 1..Len(ResultOf(t).events) :
                  LET c == ResultOf(t).events[i].coordinates
                  IN  /\ DOMAIN c = {"latitude", "longitude"}
                      /\ c.latitude \in Int
                      /\ c.longitude \in Int
            /\ FetchedArray(tasks[t]) =>
                  \A j \in 1..Len(Fetched(tasks[t])) :
                      ~HasBoth(Fetched(tasks[t])[j])
                          => ~Retained(t, Fetched(tasks[t])[j])

\* The upstream gave a record without latitude and the invocation returned
\* another event.
C4_Witness ==
    \E t \in Tasks :
        /\ Done(t)
        /\ FetchedArray(tasks[t])
        /\ Len(ResultOf(t).events) = 1
        /\ \E j \in 1..Len(Fetched(tasks[t])) :
              LET r == Fetched(tasks[t])[j]
              IN  /\ "location" \in DOMAIN r
                  /\ "coordinates" \in DOMAIN r.location
                  /\ "latitude" \notin DOMAIN r.location.coordinates

\* C5 (as claimed): an upstream event with both coordinates is retained iff
\* its distance_km, the distance rounded to 2 decimals, is at most
\* max_distance.  Stated on the invocations whose events loop raised nothing.
C5_RetainedIffDistanceKmWithin ==
    \A t \in Tasks :
        (/\ Done(t)
         /\ FetchedArray(tasks[t])
         /\ \A j \in 1..Len(Fetched(tasks[t])) : ~NullLocation(Fetched(tasks[t])[j]))
        => \A j \in 1..Len(Fetched(tasks[t])) :
              LET r == Fetched(tasks[t])[j]
              IN  HasBoth(r) =>
                    (Retained(t, r) <=> Round2(DistanceTo(r)) <= max_distance)

\* The order of the calls of one invocation.
CallOrder == <<"_get_locations", "_get_location_id", "_get_events">>

\* C6: the requests of one invocation are issued in the order prefix search,
\* exact match, events, each only after the one before was answered with a
\* successful non-empty result: after an empty or failed prefix search no
\* further request is made and the result is the empty EventSet; when the
\* exact match yields no identifier no events request is made.
C6_RequestsInOrder ==
    \A t \in Tasks :
        LET task == tasks[t]
            n == Len(task.requests)
        IN  /\ n <= 3
            /\ \A i \in 1..n : Calls(task)[i] = CallOrder[i]
            /\ \A i \in 1..n : i < n => task.requests[i].answer = "ok"
            /\ n >= 2 => \E o \in upstream.locations :
                            IsArray(o) /\ o.items # <<>>
            /\ n >= 3 => \E o \in upstream.location_id :
                            /\ IsArray(o)
                            /\ ExactMatches(o.items, task.requests[2].query) # <<>>
                            /\ LocationIdResult(o, task.requests[2].query) # None
            /\ (Done(t) /\ n < 3) => task.result = {EmptyEventSet}

\* The prefix search returned an empty sequence: one request, empty result.
C6_Witness ==
    \E t \in Tasks :
        /\ Done(t)
        /\ Calls(tasks[t]) = <<"_get_locations">>
        /\ upstream.locations = {JsonArray(<<>>)}
        /\ tasks[t].result = {EmptyEventSet}

\* C10: an invocation requests each endpoint at most once, so at most three
\* requests; a failed or timed-out request is the invocation's last one: the
\* invocation ends with it and returns the empty EventSet.
C10_NoRetries ==
    \A t \in Tasks :
        LET task == tasks[t]
            n == Len(task.requests)
        IN  /\ n <= 3
            /\ \A i, j \in 1..n : Calls(task)[i] = Calls(task)[j] => i = j
            /\ \A i \in 1..n : task.requests[i].answer \in Failures =>
                  /\ i = n
                  /\ task.pc \in {"done", "idle"}
                  /\ task.result = {EmptyEventSet}

\* The events request timed out: three requests in all, the empty EventSet.
C10_Witness ==
    \E t \in Tasks :
        /\ Done(t)
        /\ Len(tasks[t].requests) = 3
        /\ tasks[t].requests[3].answer = "timeout"
        /\ tasks[t].result = {EmptyEventSet}

\* C7: with unchanged upstream responses, every invocation returns the
\* EventSet that the invocation of the same variant before it returned,
\* field for field: what one invocation leaves behind changes no later result.
C7_Idempotent ==
    \A t \in Tasks :
        (Done(t) /\ returned[tasks[t].days] # None)
            => tasks[t].result = returned[tasks[t].days]

\* A second invocation of a variant has ended, with events, after a first
\* one returned.
C7_Witness ==
    \E t \in Tasks :
        /\ Done(t)
        /\ returned[tasks[t].days] # None
        /\ Len(ResultOf(t).events) > 0

\* C8 (as claimed): once the config entry is unloaded and no invocation is
\* running, every session the instance opened is closed.
\* async_unload_entry never calls async_close.
C8_SessionsClosedAfterUnload ==
    (entry = "unloaded" /\ \A t \in Tasks : tasks[t].pc = "idle")
        => \A i \in DOMAIN sessions : sessions[i] = "closed"

\* One invocation run alone from step n = [task, session, sessions] against
\* the upstream's answers, as far as they are known.
RECURSIVE RunAlone(_)
RunAlone(n) ==
    CASE n.task.pc = "await_locations" /\ upstream.locations # None ->
            RunAlone(AfterLocations(n.task, The(upstream.locations),
                                    n.session, n.sessions))
      [] n.task.pc = "await_location_id" /\ upstream.location_id # None ->
            RunAlone(AfterLocationId(n.task, The(upstream.location_id),
                                     n.session, n.sessions))
      [] n.task.pc = "await_events" /\ upstream.events # None ->
            RunAlone(AfterEvents(n.task, The(upstream.events),
                                 n.session, n.sessions))
      [] OTHER -> n

Alone(days) == RunAlone(BeginFetch(Idle, days, None, <<>>)).task

\* C9: under every interleaving of the invocations of one instance, an
\* invocation returns the EventSet it returns when it runs alone, on a fresh
\* instance, against the same upstream responses.
C9_ConcurrentAsAlone ==
    \A t \in Tasks :
        Done(t) =>
            /\ Alone(tasks[t].days).pc = "done"
            /\ tasks[t].result = Alone(tasks[t].days).result

\* An invocation has ended with events while the other task's invocation of
\* the other variant is waiting for a response.
C9_Witness ==
    \E t, u \in Tasks :
        /\ t # u
        /\ Done(t)
        /\ Len(ResultOf(t).events) > 0
        /\ tasks[u].pc \in {"await_locations", "await_location_id", "await_events"}
        /\ tasks[u].days # tasks[t].days

\* The keys of a returned event.
ElevenKeys ==
    {"title", "location", "locality", "coordinates", "distance_km", "date",
     "start_time", "end_time", "description", "source", "event_id"}

\* The returned event e has the defaults for what the raw record r lacks.
DefaultsFor(e, r) ==
    /\ "name" \notin DOMAIN r => e.title = "Unknown Event"
    /\ "rawlocation" \notin DOMAIN r => e.location = "Unknown Location"
    /\ "locality" \notin DOMAIN r.location => e.locality = "Unknown"
    /\ "description" \notin DOMAIN r => e.description = ""
    /\ "source" \notin DOMAIN r => e.source = ""

\* C11: every returned event has all eleven keys, and is made from an
\* upstream record with both coordinates, with "Unknown Event",
\* "Unknown Location", "Unknown", "" and "" where that record lacks name,
\* rawlocation, location.locality, description and source.
C11_ElevenKeysAndDefaults ==
    \A t \in Tasks :
        Done(t) =>
            \A i \in 1..Len(ResultOf(t).events) :
                LET e == ResultOf(t).events[i]
                IN  /\ DOMAIN e = ElevenKeys
                    /\ FetchedArray(tasks[t])
                    /\ \E j \in 1..Len(Fetched(tasks[t])) :
                          LET r == Fetched(tasks[t])[j]
                          IN  HasBoth(r) /\ MadeFrom(e, r) /\ DefaultsFor(e, r)

\* An event made from a record that has nothing but its coordinates was
\* returned with every default.
C11_Witness ==
    \E t \in Tasks :
        /\ Done(t)
        /\ \E i \in 1..Len(ResultOf(t).events) :
              LET e == ResultOf(t).events[i]
              IN  /\ e.title = "Unknown Event"
                  /\ e.location = "Unknown Location"
                  /\ e.locality = "Unknown"
                  /\ e.description = ""
                  /\ e.source = ""

\* What the exact-match endpoint gave the task for its second request.
Matched(task) ==
    ExactMatches(The(upstream.location_id).items, task.requests[2].query)

\* The task's exact-match request was answered with a non-empty array whose
\* first record has an integer identifier.
ExactMatchFound(task) ==
    /\ Len(task.requests) >= 2
    /\ task.requests[2].answer = "ok"
    /\ \E o \in upstream.location_id : IsArray(o)
    /\ Matched(task) # <<>>
    /\ "id" \in DOMAIN Matched(task)[1]

\* C12 (as claimed): whenever the exact match succeeds with a non-empty
\* result, the invocation goes on to request the events of the first
\* result's identifier, whatever integer it is.  The code tests
\* "if not location_id", which is also true of the identifier 0.
C12_FirstIdentifierIsQueried ==
    \A t \in Tasks :
        (Done(t) /\ ExactMatchFound(tasks[t])) =>
            /\ Len(tasks[t].requests) = 3
            /\ tasks[t].requests[3].query.location = Matched(tasks[t])[1].id

\* The upstream records with both coordinates that lie within the radius, in
\* upstream order, normalized.
WithinRadiusInOrder(task) ==
    LET kept == SelectSeq(Fetched(task), LAMBDA r :
                    HasBoth(r) /\ DistanceTo(r) <= max_distance)
    IN  [i \in 1..Len(kept) |->
            NearbyEvent(kept[i], kept[i].location,
                        kept[i].location.coordinates.latitude,
                        kept[i].location.coordinates.longitude,
                        DistanceTo(kept[i]))]

\* C13 (as claimed): whatever records without extractable coordinates are
\* among the upstream events, the returned events are exactly the upstream
\* events with both coordinates within the radius, in upstream order.  A
\* record whose location is a JSON null makes location.get raise, and the
\* whole invocation returns the empty EventSet.
C13_MalformedRecordDroppedAlone ==
    \A t \in Tasks :
        (Done(t) /\ FetchedArray(tasks[t])) =>
            ResultOf(t).events = WithinRadiusInOrder(tasks[t])

\* C14 (as claimed): however invocations and async_close calls interleave,
\* the instance references at most one session and every session it created
\* that is still open is the one it references.  async_close awaits the
\* session's close before it clears the reference, and a call that resumes
\* from that await clears the reference to a session created meanwhile.
C14_SessionOwnership ==
    /\ Cardinality(session) <= 1
    /\ \A i \in DOMAIN sessions : sessions[i] = "open" => session = {i}

====
